---- MODULE Spec2Model ----
(***************************************************************************)
(* Blog platform: the data-access layer (server/db.ts), the schema         *)
(* (drizzle/schema.ts) and the tRPC router (server/routers.ts).            *)
(*                                                                         *)
(* The relational store is the record db; every router procedure is one    *)
(* action that runs the whole handler: the procedure's middleware, the     *)
(* statements of the data-access functions it calls, and its response.     *)
(* last is the request/response of the most recent call and pre is the     *)
(* store as it was when that call started.                                 *)
(*                                                                         *)
(* Columns that no handler branches on (title, content, excerpt, images,   *)
(* series/tag names and slugs) are left out of the rows.                   *)
(***************************************************************************)
EXTENDS Integers, Sequences, FiniteSets, TLC

\* ------------------------------------------------------------------ bounds
MaxArticles == 2      \* auto-increment ids handed out by articles
MaxTags     == 1      \* auto-increment ids handed out by tags
MaxSeries   == 1      \* auto-increment ids handed out by series
MaxComments == 3      \* auto-increment ids handed out by comments
MaxNow      == 2      \* clock values 1..MaxNow
MaxViews    == 2      \* cap on viewCount
MaxTagIds   == 2      \* length of a tagIds input list
MaxText     == 2      \* length of a title, content, excerpt or search term
TicksPerYear == 2     \* clock values per calendar year
MaxSent      == 2     \* mutations one mounted page may issue
MaxRequests  == 3     \* requests in progress at the same time

\* ------------------------------------------------------------- value sets
NULL   == 0           \* SQL NULL / undefined in a numeric column or input
ABSENT == -1          \* an optional numeric input that was not supplied

ArticleIds == 1..MaxArticles
TagIds     == 1..MaxTags
SeriesIds  == 1..MaxSeries
CommentIds == 1..MaxComments

Slugs         == {"a", "b"}
ArticleStatus == {"draft", "published", "archived"}
CommentStatus == {"pending", "approved", "rejected"}
Requesters    == {"anon", "user", "admin"}
TagIdLists    == UNION {[1..n -> TagIds] : n \in 0..MaxTagIds}

\* Text is a sequence of characters; "%", "_" and "\\" are the characters
\* LIKE gives a meaning to.
Chars    == {"a", "%", "_", "\\"}
Texts    == UNION {[1..n -> Chars] : n \in 0..MaxText}
Word     == <<"a">>
\* title and content are required, excerpt is optional (<<>>: none)
PlainText == [title |-> Word, content |-> Word, excerpt |-> <<>>]

OK                    == "ok"
DB_ERROR              == "ER_CONSTRAINT"         \* mysql2 rejects a statement
ADMIN_ACCESS_REQUIRED == "Admin access required"
NOT_ADMIN_ERR_MSG     == "NOT_ADMIN_ERR_MSG"
UNAUTHED_ERR_MSG      == "UNAUTHED_ERR_MSG"

\* conn: whether the module holds a database connection (DATABASE_URL set)
\* page: the Article component of the client
\* everPublished: history, the stored articles that have had the status
\* published at some time
\* calls: the procedure calls in progress whose statements interleave
VARIABLES db, now, last, pre, conn, page, everPublished, calls
vars == <<db, now, last, pre, conn, page, everPublished, calls>>

\* ------------------------------------------------------------ the context
\* ctx.user of the three kinds of caller; the users table holds these rows.
users == {1, 2}
CtxUser(who) ==
    IF who = "admin" THEN [id |-> 1, role |-> "admin"]
    ELSE IF who = "user" THEN [id |-> 2, role |-> "user"]
    ELSE [id |-> NULL, role |-> "none"]

publicProcedure(who) == OK

protectedProcedure(who) ==
    IF CtxUser(who).id = NULL THEN UNAUTHED_ERR_MSG ELSE OK

adminProcedure(who) ==
    IF protectedProcedure(who) # OK THEN protectedProcedure(who)
    ELSE IF CtxUser(who).role # "admin" THEN ADMIN_ACCESS_REQUIRED
    ELSE OK

\* ---------------------------------------------------------------- helpers
NoRows == [x \in {} |-> NULL]
Put(f, k, v) == [x \in DOMAIN f \cup {k} |-> IF x = k THEN v ELSE f[x]]
Keep(f, S) == [x \in DOMAIN f \cap S |-> f[x]]
Times(s, t) == Cardinality({i \in 1..Len(s) : s[i] = t})

EmptyDb ==
    [articles    |-> NoRows,
     articleTags |-> [p \in ArticleIds \X TagIds |-> 0],
     comments    |-> NoRows,
     series      |-> {},
     tags        |-> {},
     ai          |-> [articles |-> 1, tags |-> 1, series |-> 1, comments |-> 1]]

Tables(d) == [articles |-> d.articles, articleTags |-> d.articleTags,
              comments |-> d.comments, series |-> d.series, tags |-> d.tags]

\* article_tags rows of article a / carrying tag t (a bag: rows per pair)
LinksOf(d, a) == {t \in TagIds : d.articleTags[<<a, t>>] > 0}
Carrying(d, t) == {a \in ArticleIds : d.articleTags[<<a, t>>] > 0}

\* ----------------------------------------------------- schema constraints
\* the table without its unique index
article_tag_unique_missing(bag) == TRUE

\* uniqueIndex("article_tag_unique").on(articleId, tagId)
article_tag_unique(bag) == \A p \in DOMAIN bag : bag[p] <= 1

\* the column without its foreign key
SeriesFk_missing(d, seriesId) == TRUE

\* articles.seriesId references series.id
SeriesFk(d, seriesId) == seriesId = NULL \/ seriesId \in d.series

\* article_tags.articleId / tagId reference articles.id / tags.id
ArticleTagFk(d, articleId, tagId) ==
    articleId \in DOMAIN d.articles /\ tagId \in d.tags

\* comments.articleId / authorId reference articles.id / users.id
CommentFk(d, articleId, authorId) ==
    articleId \in DOMAIN d.articles /\ authorId \in users

\* DELETE FROM series WHERE id = ..., with ON DELETE SET NULL on articles
DeleteSeriesRow(d, id) ==
    [d EXCEPT !.series = @ \ {id},
              !.articles = [a \in DOMAIN d.articles |->
                  IF d.articles[a].seriesId = id
                  THEN [d.articles[a] EXCEPT !.seriesId = NULL]
                  ELSE d.articles[a]]]

\* DELETE FROM tags WHERE id = ..., with ON DELETE CASCADE on article_tags
DeleteTagRow(d, id) ==
    [d EXCEPT !.tags = @ \ {id},
              !.articleTags = [p \in DOMAIN d.articleTags |->
                  IF p[2] = id THEN 0 ELSE d.articleTags[p]]]

\* DELETE FROM articles WHERE id = ..., with ON DELETE CASCADE on
\* article_tags and comments
DeleteArticleRow(d, id) ==
    [d EXCEPT !.articles = Keep(@, DOMAIN @ \ {id}),
              !.articleTags = [p \in DOMAIN d.articleTags |->
                  IF p[1] = id THEN 0 ELSE d.articleTags[p]],
              !.comments = Keep(@, {c \in DOMAIN @ : @[c].articleId # id})]

\* ------------------------------------------------------ series, tags (db)
createSeries(d) ==
    [ok |-> TRUE, id |-> d.ai.series,
     db |-> [d EXCEPT !.series = @ \cup {d.ai.series}, !.ai.series = @ + 1]]

deleteSeries(d, id) ==
    LET d1 == [d EXCEPT !.articles = [a \in DOMAIN d.articles |->
                   IF d.articles[a].seriesId = id
                   THEN [d.articles[a] EXCEPT !.seriesId = NULL]
                   ELSE d.articles[a]]]
    IN  DeleteSeriesRow(d1, id)

createTag(d) ==
    [ok |-> TRUE, id |-> d.ai.tags,
     db |-> [d EXCEPT !.tags = @ \cup {d.ai.tags}, !.ai.tags = @ + 1]]

deleteTag(d, id) ==
    LET d1 == [d EXCEPT !.articleTags = [p \in DOMAIN d.articleTags |->
                   IF p[2] = id THEN 0 ELSE d.articleTags[p]]]
    IN  DeleteTagRow(d1, id)

\* ---------------------------------------------------------- articles (db)
getArticleById(d, id) ==
    IF id \in DOMAIN d.articles THEN id ELSE NULL

getArticleBySlug(d, slug) ==
    IF \E a \in DOMAIN d.articles : d.articles[a].slug = slug
    THEN CHOOSE a \in DOMAIN d.articles : d.articles[a].slug = slug
    ELSE NULL

\* INSERT INTO articles: slug is unique, seriesId and authorId are foreign
\* keys; status defaults to draft, viewCount to 0, publishedAt to NULL.
createArticle(d, data) ==
    IF \/ \E a \in DOMAIN d.articles : d.articles[a].slug = data.slug
       \/ ~SeriesFk(d, data.seriesId)
       \/ data.authorId \notin users
    THEN [ok |-> FALSE, id |-> NULL, db |-> d]
    ELSE [ok |-> TRUE, id |-> d.ai.articles,
          db |-> [d EXCEPT
              !.articles = Put(@, d.ai.articles,
                  [slug |-> data.slug, title |-> data.text.title,
                   content |-> data.text.content,
                   excerpt |-> data.text.excerpt, status |-> data.status,
                   publishedAt |-> data.publishedAt,
                   seriesId |-> data.seriesId, authorId |-> data.authorId,
                   viewCount |-> 0]),
              !.ai.articles = @ + 1]]

\* an UPDATE that also writes the column default of viewCount
updateArticle_resets_views(d, id, data) ==
    IF id \notin DOMAIN d.articles THEN [ok |-> TRUE, db |-> d]
    ELSE IF data.seriesId # ABSENT /\ ~SeriesFk(d, data.seriesId)
    THEN [ok |-> FALSE, db |-> d]
    ELSE [ok |-> TRUE,
          db |-> [d EXCEPT !.articles[id] =
              [@ EXCEPT
                 !.status = IF data.status = "none" THEN @ ELSE data.status,
                 !.seriesId = IF data.seriesId = ABSENT THEN @
                              ELSE data.seriesId,
                 !.publishedAt = IF data.publishedAt = NULL THEN @
                                 ELSE data.publishedAt,
                 !.viewCount = 0]]]

\* UPDATE articles SET <the supplied columns> WHERE id = ...
\* data.status = "none", data.seriesId = ABSENT, data.publishedAt = NULL
\* stand for a column that is not in the SET list.
updateArticle(d, id, data) ==
    IF id \notin DOMAIN d.articles THEN [ok |-> TRUE, db |-> d]
    ELSE IF data.seriesId # ABSENT /\ ~SeriesFk(d, data.seriesId)
    THEN [ok |-> FALSE, db |-> d]
    ELSE [ok |-> TRUE,
          db |-> [d EXCEPT !.articles[id] =
              [@ EXCEPT
                 !.status = IF data.status = "none" THEN @ ELSE data.status,
                 !.seriesId = IF data.seriesId = ABSENT THEN @
                              ELSE data.seriesId,
                 !.publishedAt = IF data.publishedAt = NULL THEN @
                                 ELSE data.publishedAt]]]

\* the cascade without its last statement
deleteArticle_keeps_row(d, id) ==
    LET d1 == [d EXCEPT !.articleTags = [p \in DOMAIN d.articleTags |->
                   IF p[1] = id THEN 0 ELSE d.articleTags[p]]]
    IN  [d1 EXCEPT !.comments =
                   Keep(@, {c \in DOMAIN @ : @[c].articleId # id})]

deleteArticle(d, id) ==
    LET d1 == [d EXCEPT !.articleTags = [p \in DOMAIN d.articleTags |->
                   IF p[1] = id THEN 0 ELSE d.articleTags[p]]]
        d2 == [d1 EXCEPT !.comments =
                   Keep(@, {c \in DOMAIN @ : @[c].articleId # id})]
    IN  DeleteArticleRow(d2, id)

\* the UPDATE without its effect
incrementViewCount_lost(d, id) == d

incrementViewCount(d, id) ==
    IF id \in DOMAIN d.articles
    THEN [d EXCEPT !.articles[id].viewCount = @ + 1]
    ELSE d

\* DELETE the article's links, then one multi-row INSERT of the new links;
\* a rejected INSERT inserts nothing and the DELETE stays.
setArticleTags(d, articleId, tagIds) ==
    LET d1 == [d EXCEPT !.articleTags = [p \in DOMAIN d.articleTags |->
                   IF p[1] = articleId THEN 0 ELSE d.articleTags[p]]]
        bag == [p \in DOMAIN d1.articleTags |->
                   d1.articleTags[p] +
                   (IF p[1] = articleId THEN Times(tagIds, p[2]) ELSE 0)]
    IN  IF Len(tagIds) = 0 THEN [ok |-> TRUE, db |-> d1]
        ELSE IF /\ \A i \in 1..Len(tagIds) :
                      ArticleTagFk(d1, articleId, tagIds[i])
                /\ article_tag_unique(bag)
        THEN [ok |-> TRUE, db |-> [d1 EXCEPT !.articleTags = bag]]
        ELSE [ok |-> FALSE, db |-> d1]

\* ---------------------------------------------------------- comments (db)
ChildrenOf(d, id) == {c \in DOMAIN d.comments : d.comments[c].parentId = id}

\* INSERT INTO comments: articleId and authorId are foreign keys, parentId
\* is a plain int column that nothing checks; createdAt defaults to the
\* time of the statement (data.createdAt).
createComment(d, data) ==
    IF ~CommentFk(d, data.articleId, data.authorId)
    THEN [ok |-> FALSE, id |-> NULL, db |-> d]
    ELSE [ok |-> TRUE, id |-> d.ai.comments,
          db |-> [d EXCEPT
              !.comments = Put(@, d.ai.comments,
                  [articleId |-> data.articleId, authorId |-> data.authorId,
                   parentId |-> data.parentId, status |-> data.status,
                   createdAt |-> data.createdAt]),
              !.ai.comments = @ + 1]]

\* a status change that reaches the replies as well
updateCommentStatus_with_replies(d, id, status) ==
    [d EXCEPT !.comments = [c \in DOMAIN @ |->
        IF c = id \/ @[c].parentId = id
        THEN [@[c] EXCEPT !.status = status] ELSE @[c]]]

\* UPDATE comments SET status = ... WHERE id = ...
updateCommentStatus(d, id, status) ==
    IF id \in DOMAIN d.comments
    THEN [d EXCEPT !.comments[id].status = status]
    ELSE d

\* The recursion of deleteComment: select the children, recurse on each in
\* turn, then delete the node.  onStack is the chain of calls that are
\* still waiting; re-entering one of them is a recursion that never
\* returns (loops |-> TRUE), and nothing after it in any waiting call runs.
RECURSIVE deleteCommentRec(_, _, _), deleteChildren(_, _, _)
deleteChildren(d, children, onStack) ==
    IF children = {} THEN [db |-> d, loops |-> FALSE]
    ELSE LET child == CHOOSE c \in children : \A o \in children : c <= o
             r == deleteCommentRec(d, child, onStack)
         IN  IF r.loops THEN r
             ELSE deleteChildren(r.db, children \ {child}, onStack)

deleteCommentRec(d, id, onStack) ==
    IF id \in onStack THEN [db |-> d, loops |-> TRUE]
    ELSE LET r == deleteChildren(d, ChildrenOf(d, id), onStack \cup {id})
         IN  IF r.loops THEN r
             ELSE [db |-> [r.db EXCEPT !.comments = Keep(@, DOMAIN @ \ {id})],
                   loops |-> FALSE]

\* delete the direct children and the node, without recursion
deleteComment_one_level(d, id) ==
    [db |-> [d EXCEPT !.comments =
                Keep(@, {c \in DOMAIN @ : @[c].parentId # id /\ c # id})],
     loops |-> FALSE]

deleteComment(d, id) == deleteCommentRec(d, id, {})

\* every arrangement of the rows S in ascending createdAt; rows with equal
\* createdAt come in whatever order the server produces
Ascending(d, S) ==
    {rows \in [1..Cardinality(S) -> S] :
        /\ \A i, j \in DOMAIN rows : i # j => rows[i] # rows[j]
        /\ \A i, j \in DOMAIN rows :
               i < j => d.comments[rows[i]].createdAt
                            <= d.comments[rows[j]].createdAt}

\* the condition with the status test dropped
getCommentsByArticle_any_status(d, articleId, includeAll) ==
    Ascending(d, {c \in DOMAIN d.comments :
                     d.comments[c].articleId = articleId})

\* the result sets SELECT ... WHERE condition ORDER BY createdAt can give
getCommentsByArticle(d, articleId, includeAll) ==
    Ascending(d, {c \in DOMAIN d.comments :
                     /\ d.comments[c].articleId = articleId
                     /\ includeAll \/ d.comments[c].status = "approved"})

getPendingComments(d) ==
    {c \in DOMAIN d.comments : d.comments[c].status = "pending"}

\* ------------------------------------------------------------ queries (db)
\* str.replace(/[%_\\]/g, '\\$&') without the replacement: the earlier
\* version handed the term to LIKE as typed
escapeLikePattern_none(str) == str

\* str.replace(/[%_\\]/g, '\\$&')
RECURSIVE escapeLikePattern(_)
escapeLikePattern(str) ==
    IF str = <<>> THEN <<>>
    ELSE IF Head(str) \in {"%", "_", "\\"}
         THEN <<"\\", Head(str)>> \o escapeLikePattern(Tail(str))
         ELSE <<Head(str)>> \o escapeLikePattern(Tail(str))

\* text LIKE pattern (MySQL, escape character backslash): % matches any
\* run of characters, _ any one character, backslash makes the next
\* character literal (a trailing backslash stands for itself).
RECURSIVE like(_, _)
like(text, pattern) ==
    IF pattern = <<>> THEN text = <<>>
    ELSE IF Head(pattern) = "%"
    THEN \E k \in 0..Len(text) :
             like(SubSeq(text, k + 1, Len(text)), Tail(pattern))
    ELSE IF text = <<>> THEN FALSE
    ELSE IF Head(pattern) = "_" THEN like(Tail(text), Tail(pattern))
    ELSE IF Head(pattern) = "\\" /\ Len(pattern) >= 2
    THEN Head(text) = pattern[2] /\ like(Tail(text), Tail(Tail(pattern)))
    ELSE Head(text) = Head(pattern) /\ like(Tail(text), Tail(pattern))

\* YEAR(publishedAt): NULL for a NULL timestamp
YEAR(t) == IF t = NULL THEN NULL ELSE 1 + (t \div TicksPerYear)

RECURSIVE SumOver(_, _)
SumOver(f, S) ==
    IF S = {} THEN 0
    ELSE LET x == CHOOSE y \in S : TRUE IN f[x] + SumOver(f, S \ {x})

\* tags LEFT JOIN article_tags LEFT JOIN articles (id match AND published)
\* GROUP BY tags.id, count(article_tags.articleId): the second join keeps
\* every link row (NULL-extended when the article is not published), so the
\* count is over the link rows of the tag.
getTagsWithCount(d) ==
    [t \in d.tags |->
        SumOver([a \in ArticleIds |-> d.articleTags[<<a, t>>]], ArticleIds)]

\* ORDER BY publishedAt DESC / ASC (NULL sorts lowest); rows that tie come
\* in primary-key order.
Before(d, a, b, orderBy) ==
    LET pa == d.articles[a].publishedAt
        pb == d.articles[b].publishedAt
    IN  IF pa # pb THEN (IF orderBy = "oldest" THEN pa < pb ELSE pa > pb)
        ELSE a < b

RECURSIVE OrderBy(_, _, _)
OrderBy(d, S, orderBy) ==
    IF S = {} THEN <<>>
    ELSE LET first == CHOOSE a \in S :
                          \A b \in S \ {a} : Before(d, a, b, orderBy)
         IN  <<first>> \o OrderBy(d, S \ {first}, orderBy)

\* the page without its OFFSET clause
Page_no_offset(rows, limit, offset) ==
    IF limit # NULL /\ limit < Len(rows) THEN SubSeq(rows, 1, limit)
    ELSE rows

Page(rows, limit, offset) ==
    LET from == (IF offset # NULL THEN offset ELSE 0) + 1
        to   == IF limit # NULL
                THEN (IF from + limit - 1 < Len(rows) THEN from + limit - 1
                      ELSE Len(rows))
                ELSE Len(rows)
    IN  IF from > to THEN <<>> ELSE SubSeq(rows, from, to)

\* the two conditions joined the wrong way
and_as_or(p, q) == p \/ q

\* and(whereClause, inArray(articles.id, articleIds))
and(p, q) == p /\ q

\* options.status = "none", tagId / seriesId / year / limit / offset =
\* NULL and search = <<>> stand for an option that is undefined (or falsy,
\* which the code treats alike).
getArticles(d, options) ==
    LET searchTerm == <<"%">> \o escapeLikePattern(options.search) \o <<"%">>
        where(a) ==
            /\ options.status # "none" =>
                   d.articles[a].status = options.status
            /\ options.seriesId # NULL =>
                   d.articles[a].seriesId = options.seriesId
            /\ options.year # NULL =>
                   YEAR(d.articles[a].publishedAt) = options.year
            /\ options.search # <<>> =>
                   \/ like(d.articles[a].title, searchTerm)
                   \/ like(d.articles[a].content, searchTerm)
                   \/ like(d.articles[a].excerpt, searchTerm)
        articleIds == IF options.tagId # NULL
                      THEN Carrying(d, options.tagId) ELSE {}
        matching == {a \in DOMAIN d.articles :
                        IF options.tagId # NULL
                        THEN and(where(a), a \in articleIds)
                        ELSE where(a)}
    IN  IF options.tagId # NULL /\ articleIds = {}
        THEN [articles |-> <<>>, total |-> 0]
        ELSE [articles |-> Page(OrderBy(d, matching, options.orderBy),
                                options.limit, options.offset),
              total |-> Cardinality(matching)]

\* ------------------------------------------------------------ the router
\* Every procedure takes the caller and the set its input is drawn from;
\* a middleware that throws does so before the input reaches the resolver.
Respond(op, who, in, err, out, d) ==
    /\ db' = d
    /\ everPublished' =
           {a \in DOMAIN d.articles :
               a \in everPublished \/ d.articles[a].status = "published"}
    /\ pre' = Tables(db)
    /\ last' = [op |-> op, who |-> who, in |-> in, err |-> err,
                out |-> out, at |-> now]
    /\ UNCHANGED <<now, conn, page, calls>>

Reject(op, who, err) == Respond(op, who, NULL, err, NULL, db)

NO_RESPONSE == "no response"

\* the requests the server handles at the same time; each runs one call
Requests == 1..MaxRequests
Idle == [op |-> "none", pc |-> "idle", in |-> NULL, article |-> NULL,
         seen |-> NULL, err |-> OK]

\* no Article component on screen
Unmounted == [mounted |-> FALSE, slug |-> "", article |-> NULL,
              hasIncrementedRef |-> FALSE, sent |-> <<>>]

Init ==
    /\ db = EmptyDb
    /\ conn = TRUE
    /\ page = Unmounted
    /\ everPublished = {}
    /\ calls = [r \in Requests |-> Idle]
    /\ now = 1
    /\ pre = Tables(EmptyDb)
    /\ last = [op |-> "none", who |-> "anon", in |-> NULL, err |-> OK,
               out |-> NULL, at |-> 1]

\* the clock behind new Date()
Tick ==
    /\ now < MaxNow
    /\ now' = now + 1
    /\ UNCHANGED <<db, last, pre, conn, page, everPublished, calls>>

SeriesCreate(who) ==
    LET gate == adminProcedure(who) IN
    IF gate # OK THEN Reject("series.create", who, gate)
    ELSE /\ db.ai.series <= MaxSeries
         /\ LET r == createSeries(db)
            IN  Respond("series.create", who, NULL, OK, r.id, r.db)

SeriesUpdate(who, Ids) ==
    LET gate == adminProcedure(who) IN
    IF gate # OK THEN Reject("series.update", who, gate)
    ELSE \E id \in Ids : Respond("series.update", who, id, OK, NULL, db)

SeriesDelete(who, Ids) ==
    LET gate == adminProcedure(who) IN
    IF gate # OK THEN Reject("series.delete", who, gate)
    ELSE \E id \in Ids :
             Respond("series.delete", who, id, OK, NULL, deleteSeries(db, id))

TagsCreate(who) ==
    LET gate == adminProcedure(who) IN
    IF gate # OK THEN Reject("tags.create", who, gate)
    ELSE /\ db.ai.tags <= MaxTags
         /\ LET r == createTag(db)
            IN  Respond("tags.create", who, NULL, OK, r.id, r.db)

TagsUpdate(who, Ids) ==
    LET gate == adminProcedure(who) IN
    IF gate # OK THEN Reject("tags.update", who, gate)
    ELSE \E id \in Ids : Respond("tags.update", who, id, OK, NULL, db)

TagsDelete(who, Ids) ==
    LET gate == adminProcedure(who) IN
    IF gate # OK THEN Reject("tags.delete", who, gate)
    ELSE \E id \in Ids :
             Respond("tags.delete", who, id, OK, NULL, deleteTag(db, id))

TagsListWithCount(who) ==
    Respond("tags.listWithCount", who, NULL, OK, getTagsWithCount(db), db)

\* input.status = "none" stands for status not supplied; limit = NULL for
\* a call without an input object (no zod default applies).
ArticlesList(who, Inputs) ==
    \E input \in Inputs :
        LET options == [input EXCEPT
                !.status = IF input.status # "none" THEN input.status
                           ELSE "published"]
        IN  Respond("articles.list", who, input, OK,
                    getArticles(db, options), db)

ArticlesListAll(who, Inputs) ==
    LET gate == adminProcedure(who) IN
    IF gate # OK THEN Reject("articles.listAll", who, gate)
    ELSE \E input \in Inputs :
             Respond("articles.listAll", who, input, OK,
                     getArticles(db, input), db)

\* out is the id of the article row the response carries, NULL for null
ArticlesGetById(who, Ids) ==
    \E id \in Ids :
        LET article == getArticleById(db, id)
        IN  Respond("articles.getById", who, id, OK, article, db)

ArticlesGetBySlug(who, Inputs) ==
    \E input \in Inputs :
        LET article == getArticleBySlug(db, input.slug)
        IN  IF article = NULL
            THEN Respond("articles.getBySlug", who, input, OK, NULL, db)
            ELSE IF input.incrementView
                    /\ db.articles[article].status = "published"
            THEN /\ db.articles[article].viewCount < MaxViews
                 /\ Respond("articles.getBySlug", who, input, OK, article,
                            incrementViewCount(db, article))
            ELSE Respond("articles.getBySlug", who, input, OK, article, db)

\* input.seriesId = NULL: seriesId not supplied; tagIds = <<>>: not
\* supplied or empty (the handler treats both alike)
ArticlesCreate(who, Inputs) ==
    LET gate == adminProcedure(who) IN
    IF gate # OK THEN Reject("articles.create", who, gate)
    ELSE \E input \in Inputs :
         /\ db.ai.articles <= MaxArticles
         /\ LET data == [slug |-> input.slug, text |-> input.text,
                         status |-> input.status,
                         seriesId |-> input.seriesId,
                         authorId |-> CtxUser(who).id,
                         publishedAt |-> IF input.status = "published"
                                         THEN now ELSE NULL]
                result == createArticle(db, data)
                linked == setArticleTags(result.db, result.id, input.tagIds)
            IN  IF ~result.ok
                THEN Respond("articles.create", who, input, DB_ERROR, NULL,
                             result.db)
                ELSE IF Len(input.tagIds) > 0
                THEN Respond("articles.create", who, input,
                             IF linked.ok THEN OK ELSE DB_ERROR,
                             result.id, linked.db)
                ELSE Respond("articles.create", who, input, OK, result.id,
                             result.db)

\* an update never stamps
becomesPublished_never(d, article, status) == FALSE

\* stamp on every update that asks for published
becomesPublished_always(d, article, status) ==
    article # NULL /\ status = "published"

\* stamp only an article that has no timestamp yet
becomesPublished_once(d, article, status) ==
    /\ article # NULL
    /\ status = "published"
    /\ d.articles[article].status # "published"
    /\ d.articles[article].publishedAt = NULL

\* article && data.status === "published" && article.status !== "published"
becomesPublished(d, article, status) ==
    /\ article # NULL
    /\ status = "published"
    /\ d.articles[article].status # "published"

\* input.status = "none", input.seriesId = ABSENT, input.hasTagIds = FALSE
\* stand for fields that were not supplied; every call carries at least
\* one column for the UPDATE.
ArticlesUpdate(who, Inputs) ==
    LET gate == adminProcedure(who) IN
    IF gate # OK THEN Reject("articles.update", who, gate)
    ELSE \E input \in Inputs :
         LET article == getArticleById(db, input.id)
             data == [status |-> input.status, seriesId |-> input.seriesId,
                      publishedAt |->
                          IF becomesPublished(db, article, input.status)
                          THEN now ELSE NULL]
             updated == updateArticle(db, input.id, data)
             linked == setArticleTags(updated.db, input.id, input.tagIds)
         IN  IF ~updated.ok
             THEN Respond("articles.update", who, input, DB_ERROR, NULL,
                          updated.db)
             ELSE IF input.hasTagIds
             THEN Respond("articles.update", who, input,
                          IF linked.ok THEN OK ELSE DB_ERROR, NULL, linked.db)
             ELSE Respond("articles.update", who, input, OK, NULL, updated.db)

ArticlesDelete(who, Ids) ==
    LET gate == adminProcedure(who) IN
    IF gate # OK THEN Reject("articles.delete", who, gate)
    ELSE \E id \in Ids :
             Respond("articles.delete", who, id, OK, NULL,
                     deleteArticle(db, id))

\* every new comment waits for moderation
commentStatus_pending(role) == "pending"

\* the status a new comment gets: the admin's comments approve themselves
commentStatus(role) == IF role = "admin" THEN "approved" ELSE "pending"

\* input.parentId = NULL: parentId not supplied
CommentsCreate(who, Inputs) ==
    LET gate == protectedProcedure(who) IN
    IF gate # OK THEN Reject("comments.create", who, gate)
    ELSE \E input \in Inputs :
         /\ db.ai.comments <= MaxComments
         /\ LET status == commentStatus(CtxUser(who).role)
                r == createComment(db,
                        [articleId |-> input.articleId,
                         parentId |-> input.parentId,
                         authorId |-> CtxUser(who).id, status |-> status,
                         createdAt |-> now])
            IN  Respond("comments.create", who, input,
                        IF r.ok THEN OK ELSE DB_ERROR, r.id, r.db)

CommentsListByArticle(who, Ids) ==
    \E articleId \in Ids :
        \E commentsList \in getCommentsByArticle(db, articleId, FALSE) :
            Respond("comments.listByArticle", who, articleId, OK,
                    commentsList, db)

CommentsApprove(who, Ids) ==
    LET gate == adminProcedure(who) IN
    IF gate # OK THEN Reject("comments.approve", who, gate)
    ELSE \E id \in Ids :
             Respond("comments.approve", who, id, OK, NULL,
                     updateCommentStatus(db, id, "approved"))

CommentsReject(who, Ids) ==
    LET gate == adminProcedure(who) IN
    IF gate # OK THEN Reject("comments.reject", who, gate)
    ELSE \E id \in Ids :
             Respond("comments.reject", who, id, OK, NULL,
                     updateCommentStatus(db, id, "rejected"))

\* a recursion that never returns sends no response
CommentsDelete(who, Ids) ==
    LET gate == adminProcedure(who) IN
    IF gate # OK THEN Reject("comments.delete", who, gate)
    ELSE \E id \in Ids :
         LET r == deleteComment(db, id)
         IN  Respond("comments.delete", who, id,
                     IF r.loops THEN NO_RESPONSE ELSE OK, NULL, r.db)

CommentsListPending(who) ==
    LET gate == adminProcedure(who) IN
    IF gate # OK THEN Reject("comments.listPending", who, gate)
    ELSE Respond("comments.listPending", who, NULL, OK,
                 getPendingComments(db), db)

\* ------------------------------------------------------- specifications
\* Each specification runs the handlers of one part of the router from the
\* empty store, with the inputs that part is about.

\* Spec: articles of every status, and the article reads of every caller
CreateInputs ==
    [slug : Slugs, text : {PlainText}, status : ArticleStatus,
     seriesId : {NULL}, tagIds : {<<>>}]
UpdateInputs ==
    [id : ArticleIds, status : ArticleStatus \cup {"none"},
     seriesId : {ABSENT}, hasTagIds : {FALSE}, tagIds : {<<>>}]
ListInputs ==
    [status : ArticleStatus \cup {"none"}, tagId : {NULL}, seriesId : {NULL},
     year : {NULL}, search : {<<>>}, limit : {NULL, 1}, offset : {NULL},
     orderBy : {"newest"}]
SlugInputs == [slug : Slugs, incrementView : BOOLEAN]

Next ==
    \/ ArticlesCreate("admin", CreateInputs)
    \/ ArticlesUpdate("admin", UpdateInputs)
    \/ ArticlesDelete("admin", ArticleIds)
    \/ \E who \in Requesters : ArticlesGetById(who, ArticleIds)
    \/ \E who \in Requesters : ArticlesGetBySlug(who, SlugInputs)
    \/ \E who \in Requesters : ArticlesList(who, ListInputs)
    \/ ArticlesListAll("admin", ListInputs)

Spec == Init /\ [][Next]_vars

\* SpecPublish: the status changes of articles while the clock advances
NextPublish ==
    \/ Tick
    \/ ArticlesCreate("admin", CreateInputs)
    \/ ArticlesUpdate("admin", UpdateInputs)
    \/ ArticlesDelete("admin", ArticleIds)

SpecPublish == Init /\ [][NextPublish]_vars

\* SpecSeries: series and the articles' seriesId, called by every caller
SeriesCreateInputs ==
    [slug : Slugs, text : {PlainText}, status : {"draft"},
     seriesId : {NULL} \cup SeriesIds, tagIds : {<<>>}]
SeriesUpdateInputs ==
    [id : ArticleIds, status : {"none"}, seriesId : {NULL} \cup SeriesIds,
     hasTagIds : {FALSE}, tagIds : {<<>>}]

NextSeries ==
    \/ \E who \in Requesters : SeriesCreate(who)
    \/ \E who \in Requesters : SeriesUpdate(who, SeriesIds)
    \/ \E who \in Requesters : SeriesDelete(who, SeriesIds)
    \/ \E who \in Requesters : ArticlesCreate(who, SeriesCreateInputs)
    \/ \E who \in Requesters : ArticlesUpdate(who, SeriesUpdateInputs)
    \/ \E who \in Requesters : ArticlesDelete(who, ArticleIds)

SpecSeries == Init /\ [][NextSeries]_vars

\* SpecTags: tags, the articles' tag links and the tag counts
TagCreateInputs ==
    [slug : Slugs, text : {PlainText}, status : {"draft", "published"},
     seriesId : {NULL}, tagIds : TagIdLists]
TagUpdateInputs ==
    [id : ArticleIds, status : {"none"}, seriesId : {ABSENT},
     hasTagIds : {TRUE}, tagIds : TagIdLists]

NextTags ==
    \/ TagsCreate("admin")
    \/ TagsUpdate("admin", TagIds)
    \/ TagsDelete("admin", TagIds)
    \/ \E who \in Requesters : TagsListWithCount(who)
    \/ ArticlesCreate("admin", TagCreateInputs)
    \/ ArticlesUpdate("admin", TagUpdateInputs)

SpecTags == Init /\ [][NextTags]_vars

\* SpecComments: comment threads.  A reply names any comment id handed out
\* so far or the one about to be.
PublishedInputs ==
    [slug : Slugs, text : {PlainText}, status : {"published"},
     seriesId : {NULL}, tagIds : {<<>>}]
CommentInputs ==
    [articleId : ArticleIds, parentId : 0..db.ai.comments]

NextComments ==
    \/ ArticlesCreate("admin", PublishedInputs)
    \/ CommentsCreate("user", CommentInputs)
    \/ CommentsDelete("admin", CommentIds)

SpecComments == Init /\ [][NextComments]_vars

\* SpecCascade: articles with tag links and comment threads, and their
\* deletion
TaggedInputs ==
    [slug : Slugs, text : {PlainText}, status : {"published"},
     seriesId : {NULL}, tagIds : {<<>>, <<1>>}]

ReplyInputs == [articleId : ArticleIds, parentId : {NULL, 1}]

NextCascade ==
    \/ TagsCreate("admin")
    \/ ArticlesCreate("admin", TaggedInputs)
    \/ CommentsCreate("user", ReplyInputs)
    \/ ArticlesDelete("admin", ArticleIds)

SpecCascade == Init /\ [][NextCascade]_vars

\* SpecGate: the admin fills the store, a user comments, and callers who
\* are not admins try every admin-only operation
ArchiveInputs ==
    [id : ArticleIds, status : {"archived"}, seriesId : {ABSENT},
     hasTagIds : {FALSE}, tagIds : {<<>>}]
ListAllInputs ==
    [status : {"none"}, tagId : {NULL}, seriesId : {NULL}, year : {NULL},
     search : {<<>>}, limit : {NULL}, offset : {NULL}, orderBy : {"newest"}]
FirstInputs ==
    [slug : {"a"}, text : {PlainText}, status : {"published"},
     seriesId : {NULL}, tagIds : {<<>>}]
TopLevelInputs == [articleId : {1}, parentId : {NULL}]

NextGate ==
    \/ \E who \in Requesters : SeriesCreate(who)
    \/ \E who \in Requesters : TagsCreate(who)
    \/ \E who \in Requesters : ArticlesCreate(who, FirstInputs)
    \/ \E who \in Requesters : CommentsCreate(who, TopLevelInputs)
    \/ \E who \in {"anon", "user"} :
        \/ SeriesUpdate(who, SeriesIds)
        \/ SeriesDelete(who, SeriesIds)
        \/ TagsUpdate(who, TagIds)
        \/ TagsDelete(who, TagIds)
        \/ ArticlesUpdate(who, ArchiveInputs)
        \/ ArticlesDelete(who, ArticleIds)
        \/ ArticlesListAll(who, ListAllInputs)
        \/ CommentsApprove(who, CommentIds)
        \/ CommentsReject(who, CommentIds)
        \/ CommentsDelete(who, CommentIds)
        \/ CommentsListPending(who)

SpecGate == Init /\ [][NextGate]_vars

\* SpecList: articles that differ in every column a filter looks at, and
\* the public listing under every combination of filters and pages
PercentText == [title |-> <<"%">>, content |-> Word, excerpt |-> <<>>]
ListedInputs ==
    [slug : {"a"}, text : {PlainText}, status : {"published"},
     seriesId : {NULL, 1}, tagIds : {<<>>, <<1>>}]
    \cup
    [slug : {"b"}, text : {PercentText}, status : {"published"},
     seriesId : {NULL}, tagIds : {<<>>}]
Pages ==
    {[limit |-> NULL, offset |-> NULL], [limit |-> 1, offset |-> NULL],
     [limit |-> 1, offset |-> 1]}
FilterInputs ==
    {[status |-> "none", tagId |-> t, seriesId |-> s, year |-> y,
      search |-> q, limit |-> p.limit, offset |-> p.offset,
      orderBy |-> "newest"] :
        t \in {NULL, 1}, s \in {NULL, 1}, y \in {NULL, 1},
        q \in {<<>>, <<"%">>}, p \in Pages}

NextList ==
    \/ Tick
    \/ SeriesCreate("admin")
    \/ TagsCreate("admin")
    \/ ArticlesCreate("admin", ListedInputs)
    \/ ArticlesList("anon", FilterInputs)

SpecList == Init /\ [][NextList]_vars

\* SpecSearch: one article with any title, and the public listing
\* searched for any term
SearchedInputs ==
    [slug : {"a"},
     text : [title : Texts \ {<<>>}, content : {Word},
             excerpt : {<<"_">>}],
     status : {"published"}, seriesId : {NULL}, tagIds : {<<>>}]
SearchInputs ==
    [status : {"none"}, tagId : {NULL}, seriesId : {NULL}, year : {NULL},
     search : Texts \ {<<>>}, limit : {NULL}, offset : {NULL},
     orderBy : {"newest"}]

NextSearch ==
    \/ ArticlesCreate("admin", SearchedInputs)
    \/ ArticlesList("anon", SearchInputs)

SpecSearch == Init /\ [][NextSearch]_vars

\* SpecViews: articles of every status, read by slug with and without the
\* request to count the view
NextViews ==
    \/ ArticlesCreate("admin", CreateInputs)
    \/ ArticlesUpdate("admin", UpdateInputs)
    \/ \E who \in Requesters : ArticlesGetBySlug(who, SlugInputs)

SpecViews == Init /\ [][NextViews]_vars

\* SpecThreads: a thread of comments by a user and by the admin across two
\* articles, the first comment rejected or approved, and the public listing
NextSlugInputs ==
    [slug : IF db.ai.articles = 1 THEN {"a"} ELSE {"b"}, text : {PlainText},
     status : {"published"}, seriesId : {NULL}, tagIds : {<<>>}]
\* each comment replies to the one before it, the first to none
ThreadInputs == [articleId : {1, 2}, parentId : {db.ai.comments - 1}]

NextThreads ==
    \/ Tick
    \/ ArticlesCreate("admin", NextSlugInputs)
    \/ \E who \in {"user", "admin"} : CommentsCreate(who, ThreadInputs)
    \/ CommentsApprove("admin", {1})
    \/ CommentsReject("admin", {1})
    \/ CommentsListByArticle("anon", ArticleIds)

SpecThreads == Init /\ [][NextThreads]_vars

\* --------------------------------------------- the Article page (client)
\* page.slug is params.slug ("": none), page.article the id of the data of
\* the getBySlug query (NULL: undefined or null), page.sent the inputs of
\* the incrementView mutations the component has issued since it mounted.
useEffect_unguarded(p) ==
    IF p.slug # "" /\ p.article # NULL
    THEN [p EXCEPT !.sent = Append(@, [slug |-> p.slug])]
    ELSE p

\* the body of the effect
useEffect(p) ==
    IF p.slug # "" /\ p.article # NULL /\ ~p.hasIncrementedRef
    THEN [p EXCEPT !.hasIncrementedRef = TRUE,
                   !.sent = Append(@, [slug |-> p.slug])]
    ELSE p

\* the router renders <Article/>: a fresh ref, no query data yet
Mount(Routes) ==
    /\ ~page.mounted
    /\ \E slug \in Routes :
           page' = [Unmounted EXCEPT !.mounted = TRUE, !.slug = slug]
    /\ UNCHANGED <<db, now, last, pre, conn, everPublished, calls>>

Unmount ==
    /\ page.mounted
    /\ page' = Unmounted
    /\ UNCHANGED <<db, now, last, pre, conn, everPublished, calls>>

\* the route parameter changes under the mounted component; the query of
\* the new key has no data yet
Navigate(Routes) ==
    /\ page.mounted
    /\ \E slug \in Routes \ {page.slug} :
           page' = [page EXCEPT !.slug = slug, !.article = NULL]
    /\ UNCHANGED <<db, now, last, pre, conn, everPublished, calls>>

\* the getBySlug query (enabled when there is a slug) delivers its data, on
\* the first fetch and on every refetch
QueryData ==
    /\ page.mounted
    /\ page.slug # ""
    /\ page' = [page EXCEPT !.article = getArticleBySlug(db, page.slug)]
    /\ UNCHANGED <<db, now, last, pre, conn, everPublished, calls>>

\* React runs the effect after the mount, after a render in which
\* params.slug or article?.id changed, and a second time under StrictMode;
\* here it may run after any render.
Effect ==
    /\ page.mounted
    /\ Len(page.sent) < MaxSent
    /\ page' = useEffect(page)
    /\ page' # page
    /\ UNCHANGED <<db, now, last, pre, conn, everPublished, calls>>

PageSlugs == {"", "a", "b"}

\* SpecPage: the admin publishes and deletes articles while a visitor
\* opens, leaves and re-routes the Article page
NextPage ==
    \/ ArticlesCreate("admin", NextSlugInputs)
    \/ ArticlesDelete("admin", ArticleIds)
    \/ Mount(PageSlugs)
    \/ Unmount
    \/ Navigate(PageSlugs)
    \/ QueryData
    \/ Effect

SpecPage == Init /\ [][NextPage]_vars

\* SpecModerate: a thread of comments by a user and by the admin, and the
\* admin approving, rejecting and deleting any of them
NextModerate ==
    \/ ArticlesCreate("admin", NextSlugInputs)
    \/ \E who \in {"user", "admin"} : CommentsCreate(who, ThreadInputs)
    \/ CommentsApprove("admin", CommentIds)
    \/ CommentsReject("admin", CommentIds)
    \/ CommentsDelete("admin", CommentIds)

SpecModerate == Init /\ [][NextModerate]_vars

\* SpecCounter: views are counted while the admin edits the article, its
\* tags and series and while comments come and go
NextCounter ==
    \/ ArticlesCreate("admin", NextSlugInputs)
    \/ ArticlesUpdate("admin",
           [id : {1}, status : {"none", "draft", "published"},
            seriesId : {ABSENT, NULL, 1}, hasTagIds : {FALSE},
            tagIds : {<<>>}]
           \cup [id : {1}, status : {"none"}, seriesId : {ABSENT},
                 hasTagIds : {TRUE}, tagIds : {<<>>, <<1>>}])
    \/ ArticlesDelete("admin", {1})
    \/ ArticlesGetBySlug("anon", [slug : {"a"}, incrementView : BOOLEAN])
    \/ TagsCreate("admin")
    \/ TagsDelete("admin", {1})
    \/ SeriesCreate("admin")
    \/ SeriesDelete("admin", {1})
    \/ CommentsCreate("user", TopLevelInputs)
    \/ CommentsDelete("admin", {1})

SpecCounter == Init /\ [][NextCounter]_vars

\* ------------------------------------------- requests that interleave
\* A handler is a chain of awaits; between two of its statements the
\* statements of other requests may run.  call.article and call.seen are
\* the row the handler's SELECT returned (its id and its viewCount).

\* the counter written back from the row the handler read
incrementStatement_from_row(d, call) ==
    IF call.article \in DOMAIN d.articles
    THEN [d EXCEPT !.articles[call.article].viewCount = call.seen + 1]
    ELSE d

\* UPDATE articles SET viewCount = viewCount + 1 WHERE id = ...
incrementStatement(d, call) == incrementViewCount(d, call.article)

\* getBySlug with incrementView: the SELECT by slug; the handler returns at
\* once when there is no row or the row is not published
GetBySlugSelect(r, Inputs) ==
    /\ calls[r].pc = "idle"
    /\ \E slug \in Inputs :
           LET article == getArticleBySlug(db, slug)
               counts == /\ article # NULL
                         /\ db.articles[article].status = "published"
           IN  calls' = [calls EXCEPT ![r] =
                   [op |-> "articles.getBySlug",
                    pc |-> IF counts THEN "selected" ELSE "done",
                    in |-> slug, article |-> article,
                    seen |-> IF article = NULL THEN NULL
                             ELSE db.articles[article].viewCount,
                    err |-> OK]]
    /\ UNCHANGED <<db, now, last, pre, conn, page, everPublished>>

\* getBySlug with incrementView: the UPDATE, then the response
GetBySlugIncrement(r) ==
    /\ calls[r].pc = "selected"
    /\ db' = incrementStatement(db, calls[r])
    /\ pre' = Tables(db)
    /\ last' = [op |-> "articles.getBySlug", who |-> "anon",
                in |-> [slug |-> calls[r].in, incrementView |-> TRUE],
                err |-> OK, out |-> calls[r].article, at |-> now]
    /\ calls' = [calls EXCEPT ![r].pc = "done"]
    /\ UNCHANGED <<now, conn, page, everPublished>>

\* SpecRace: the admin publishes articles while requests to count a view
\* run side by side
NextRace ==
    \/ ArticlesCreate("admin", NextSlugInputs)
    \/ \E r \in Requests : GetBySlugSelect(r, Slugs)
    \/ \E r \in Requests : GetBySlugIncrement(r)

SpecRace == Init /\ [][NextRace]_vars

\* deleteArticle and deleteTag statement by statement.  calls[r].in is the
\* id the call was given.

\* the article row removed first, by a store that lets it go
deleteArticleLinks_row_first(d, id) ==
    [d EXCEPT !.articles = Keep(@, DOMAIN @ \ {id})]

\* DELETE FROM article_tags WHERE articleId = ...
deleteArticleLinks(d, id) ==
    [d EXCEPT !.articleTags = [p \in DOMAIN d.articleTags |->
                  IF p[1] = id THEN 0 ELSE d.articleTags[p]]]

\* DELETE FROM comments WHERE articleId = ...
deleteArticleComments(d, id) ==
    [d EXCEPT !.comments = Keep(@, {c \in DOMAIN @ : @[c].articleId # id})]

\* DELETE FROM article_tags WHERE tagId = ...
deleteTagLinks(d, id) ==
    [d EXCEPT !.articleTags = [p \in DOMAIN d.articleTags |->
                  IF p[2] = id THEN 0 ELSE d.articleTags[p]]]

\* a statement of a call that is not its last: the store changes, the
\* call moves on, nothing is answered yet
Statement(r, pc, d) ==
    /\ db' = d
    /\ everPublished' =
           {a \in DOMAIN d.articles :
               a \in everPublished \/ d.articles[a].status = "published"}
    /\ calls' = [calls EXCEPT ![r].pc = pc]
    /\ UNCHANGED <<now, last, pre, conn, page>>

\* the last statement of a call, and its response or its error
Finish(r, err, d) ==
    /\ db' = d
    /\ everPublished' =
           {a \in DOMAIN d.articles :
               a \in everPublished \/ d.articles[a].status = "published"}
    /\ pre' = Tables(db)
    /\ last' = [op |-> calls[r].op, who |-> "admin", in |-> calls[r].in,
                err |-> err, out |-> NULL, at |-> now]
    /\ calls' = [calls EXCEPT ![r].pc = "done", ![r].err = err]
    /\ UNCHANGED <<now, conn, page>>

ArticlesDeleteLinks(r, Ids) ==
    /\ calls[r].pc \in {"idle", "done"}
    /\ \E id \in Ids :
           /\ db' = deleteArticleLinks(db, id)
           /\ calls' = [calls EXCEPT ![r] =
                  [Idle EXCEPT !.op = "articles.delete", !.pc = "links",
                               !.in = id]]
    /\ UNCHANGED <<now, last, pre, conn, page, everPublished>>

ArticlesDeleteComments(r) ==
    /\ calls[r].op = "articles.delete" /\ calls[r].pc = "links"
    /\ Statement(r, "comments", deleteArticleComments(db, calls[r].in))

ArticlesDeleteRow(r) ==
    /\ calls[r].op = "articles.delete" /\ calls[r].pc = "comments"
    /\ Finish(r, OK, DeleteArticleRow(db, calls[r].in))

TagsDeleteLinks(r, Ids) ==
    /\ calls[r].pc \in {"idle", "done"}
    /\ \E id \in Ids :
           /\ db' = deleteTagLinks(db, id)
           /\ calls' = [calls EXCEPT ![r] =
                  [Idle EXCEPT !.op = "tags.delete", !.pc = "links",
                               !.in = id]]
    /\ UNCHANGED <<now, last, pre, conn, page, everPublished>>

TagsDeleteRow(r) ==
    /\ calls[r].op = "tags.delete" /\ calls[r].pc = "links"
    /\ Finish(r, OK, DeleteTagRow(db, calls[r].in))

\* SpecDelete: articles with tags and comments are created while deletes
\* of articles (request 1, one call after the other) and of tags (request
\* 2) run statement by statement, side by side
LinkedInputs ==
    [slug : IF db.ai.articles = 1 THEN {"a"} ELSE {"b"}, text : {PlainText},
     status : {"published"}, seriesId : {NULL}, tagIds : {<<>>, <<1>>}]

NextDelete ==
    \/ TagsCreate("admin")
    \/ ArticlesCreate("admin", LinkedInputs)
    \/ CommentsCreate("user", [articleId : ArticleIds, parentId : {NULL}])
    \/ ArticlesDeleteLinks(1, ArticleIds)
    \/ ArticlesDeleteComments(1)
    \/ ArticlesDeleteRow(1)
    \/ TagsDeleteLinks(2, TagIds)
    \/ TagsDeleteRow(2)

SpecDelete == Init /\ [][NextDelete]_vars

\* articles.update statement by statement.  calls[r].in is the input,
\* calls[r].article the row the handler read.

\* INSERT INTO article_tags VALUES (articleId, tagId), ... for the tagIds:
\* one statement, rejected as a whole by a foreign key or the unique index
insertArticleTags(d, articleId, tagIds) ==
    LET bag == [p \in DOMAIN d.articleTags |->
                   d.articleTags[p] +
                   (IF p[1] = articleId THEN Times(tagIds, p[2]) ELSE 0)]
    IN  IF /\ \A i \in 1..Len(tagIds) :
                  ArticleTagFk(d, articleId, tagIds[i])
           /\ article_tag_unique(bag)
        THEN [ok |-> TRUE, db |-> [d EXCEPT !.articleTags = bag]]
        ELSE [ok |-> FALSE, db |-> d]

\* const article = await db.getArticleById(id)
ArticlesUpdateSelect(r, Inputs) ==
    /\ calls[r].pc = "idle"
    /\ \E input \in Inputs :
           calls' = [calls EXCEPT ![r] =
               [Idle EXCEPT !.op = "articles.update", !.pc = "selected",
                            !.in = input,
                            !.article = getArticleById(db, input.id)]]
    /\ UNCHANGED <<db, now, last, pre, conn, page, everPublished>>

\* await db.updateArticle(id, data); without tagIds the call ends here
ArticlesUpdateRow(r) ==
    /\ calls[r].op = "articles.update" /\ calls[r].pc = "selected"
    /\ LET input == calls[r].in
           data == [status |-> input.status, seriesId |-> input.seriesId,
                    publishedAt |->
                        IF becomesPublished(db, calls[r].article,
                                            input.status)
                        THEN now ELSE NULL]
           updated == updateArticle(db, input.id, data)
       IN  IF ~updated.ok THEN Finish(r, DB_ERROR, updated.db)
           ELSE IF ~input.hasTagIds THEN Finish(r, OK, updated.db)
           ELSE Statement(r, "updated", updated.db)

\* setArticleTags: the DELETE; with an empty tagIds the call ends here
ArticlesUpdateDeleteLinks(r) ==
    /\ calls[r].op = "articles.update" /\ calls[r].pc = "updated"
    /\ IF calls[r].in.tagIds = <<>>
       THEN Finish(r, OK, deleteArticleLinks(db, calls[r].in.id))
       ELSE Statement(r, "unlinked", deleteArticleLinks(db, calls[r].in.id))

\* setArticleTags: the INSERT
ArticlesUpdateInsertLinks(r) ==
    /\ calls[r].op = "articles.update" /\ calls[r].pc = "unlinked"
    /\ LET linked == insertArticleTags(db, calls[r].in.id,
                                       calls[r].in.tagIds)
       IN  Finish(r, IF linked.ok THEN OK ELSE DB_ERROR, linked.db)

\* SpecTagRace: two articles.update calls set the tags of stored articles
\* side by side; every call names stored tags only
RaceUpdateInputs ==
    [id : DOMAIN db.articles, status : {"none"}, seriesId : {ABSENT},
     hasTagIds : {TRUE},
     tagIds : {l \in TagIdLists :
                  /\ \A i \in 1..Len(l) : l[i] \in db.tags
                  /\ \A i, j \in 1..Len(l) : i # j => l[i] # l[j]}]

NextTagRace ==
    \/ TagsCreate("admin")
    \/ ArticlesCreate("admin", LinkedInputs)
    \/ \E r \in {1, 2} : ArticlesUpdateSelect(r, RaceUpdateInputs)
    \/ \E r \in {1, 2} : ArticlesUpdateRow(r)
    \/ \E r \in {1, 2} : ArticlesUpdateDeleteLinks(r)
    \/ \E r \in {1, 2} : ArticlesUpdateInsertLinks(r)

SpecTagRace == Init /\ [][NextTagRace]_vars

\* ------------------------------------------ the comment section (client)
\* comments is the list the listByArticle query returned (ids of rows of
\* d.comments, which carry parentId).  The forest is the list of roots and,
\* for every comment of the list, the list of its replies.
buildCommentTree(d, comments) ==
    LET commentMap == {comments[i] : i \in 1..Len(comments)}
        under(c) == IF /\ d.comments[c].parentId # NULL
                       /\ d.comments[c].parentId \in commentMap
                    THEN d.comments[c].parentId ELSE NULL
    IN  [rootComments |-> SelectSeq(comments, LAMBDA c : under(c) = NULL),
         replies |-> [p \in commentMap |->
                         SelectSeq(comments, LAMBDA c : under(c) = p)]]

\* the comments CommentThread renders: the roots and, recursively, their
\* replies
RECURSIVE Rendered(_, _)
Rendered(tree, shown) ==
    LET more == UNION {{tree.replies[c][i] : i \in 1..Len(tree.replies[c])} :
                          c \in shown}
    IN  IF more \subseteq shown THEN shown
        ELSE Rendered(tree, shown \cup more)

\* CommentSection renders: the query data goes through buildCommentTree
CommentSectionRender(Ids) ==
    \E articleId \in Ids :
        \E commentsList \in getCommentsByArticle(db, articleId, FALSE) :
            Respond("CommentSection", "anon", articleId, OK,
                    [list |-> commentsList,
                     tree |-> buildCommentTree(db, commentsList)], db)

\* SpecTree: the admin writes comments (they approve themselves) that
\* reply to any comment id, and the comment section shows them
NextTree ==
    \/ ArticlesCreate("admin", NextSlugInputs)
    \/ CommentsCreate("admin", CommentInputs)
    \/ CommentSectionRender(ArticleIds)

SpecTree == Init /\ [][NextTree]_vars

\* ------------------------------------------- db.ts without a connection
DB_NOT_AVAILABLE == "Database not available"
OPENID_REQUIRED  == "User openId is required for upsert"

requireDb   == IF conn THEN OK ELSE DB_NOT_AVAILABLE
getDbOrNull == conn

\* the exported functions that start with requireDb()
ViaRequireDb ==
    {"getAllSeries", "getSeriesById", "getSeriesBySlug", "createSeries",
     "updateSeries", "deleteSeries", "getAllTags", "getTagById",
     "getTagBySlug", "createTag", "updateTag", "deleteTag",
     "getFeaturedArticles", "createArticle", "updateArticle",
     "deleteArticle", "setArticleTags", "createComment",
     "updateCommentStatus", "deleteComment"}

\* the exported functions that start with getDbOrNull() and return what
\* NoDbResult gives when it is null
ViaGetDbOrNull ==
    {"upsertUser", "getUserByOpenId", "getUserById", "getArticles",
     "getArticleById", "getArticleBySlug", "incrementViewCount",
     "getArticleTags", "getCommentsByArticle",
     "getCommentsByArticleWithAuthor", "getPendingCommentsWithDetails",
     "getCommentById", "getPendingComments", "getArchiveYears",
     "getTagsWithCount", "getSeriesWithCount"}

\* NULL stands for undefined and for the result of a plain return
NoDbResult(fn) ==
    IF fn = "getArticles" THEN [articles |-> <<>>, total |-> 0]
    ELSE IF fn \in {"getArticleTags", "getCommentsByArticle",
                    "getCommentsByArticleWithAuthor",
                    "getPendingCommentsWithDetails", "getPendingComments",
                    "getArchiveYears", "getTagsWithCount",
                    "getSeriesWithCount"} THEN <<>>
    ELSE NULL

\* the functions that only SELECT
Reads ==
    {"getUserByOpenId", "getUserById", "getAllSeries", "getSeriesById",
     "getSeriesBySlug", "getAllTags", "getTagById", "getTagBySlug",
     "getArticles", "getFeaturedArticles", "getArticleById",
     "getArticleBySlug", "getArticleTags", "getCommentsByArticle",
     "getCommentsByArticleWithAuthor", "getPendingCommentsWithDetails",
     "getCommentById", "getPendingComments", "getArchiveYears",
     "getTagsWithCount", "getSeriesWithCount"}

\* the functions that INSERT, UPDATE or DELETE
Writes == (ViaRequireDb \cup ViaGetDbOrNull) \ Reads

\* the first argument: an openId ("": none) for upsertUser, else a number
Arguments(fn) == IF fn = "upsertUser" THEN {"", "openid"} ELSE {1, 2}

\* a call of an exported function of db.ts by the server while the module
\* has no connection
Call(fn) ==
    /\ ~conn
    /\ \E input \in Arguments(fn) :
           IF fn = "upsertUser" /\ input = ""
           THEN Respond(fn, "server", input, OPENID_REQUIRED, NULL, db)
           ELSE IF fn \in ViaRequireDb
           THEN Respond(fn, "server", input, requireDb, NULL, db)
           ELSE Respond(fn, "server", input, OK, NoDbResult(fn), db)

InitNoDb ==
    /\ db = EmptyDb
    /\ conn = FALSE
    /\ page = Unmounted
    /\ everPublished = {}
    /\ calls = [r \in Requests |-> Idle]
    /\ now = 1
    /\ pre = Tables(EmptyDb)
    /\ last = [op |-> "none", who |-> "anon", in |-> NULL, err |-> OK,
               out |-> NULL, at |-> 1]

NextNoDb ==
    \/ Tick
    \/ \E fn \in ViaRequireDb \cup ViaGetDbOrNull : Call(fn)

SpecNoDb == InitNoDb /\ [][NextNoDb]_vars

\* ------------------------------------------------------------- properties
HasRepeat(s) == \E i, j \in 1..Len(s) : i # j /\ s[i] = s[j]

\* every comment reachable from id through parentId links of table t
RECURSIVE ReachableFrom(_, _)
ReachableFrom(t, S) ==
    LET more == S \cup {c \in DOMAIN t : t[c].parentId \in S}
    IN  IF more = S THEN S ELSE ReachableFrom(t, more)
Descendants(t, id) == ReachableFrom(t, {c \in DOMAIN t : t[c].parentId = id})

AdminOps ==
    {"series.create", "series.update", "series.delete",
     "tags.create", "tags.update", "tags.delete",
     "articles.create", "articles.update", "articles.delete",
     "articles.listAll", "comments.listPending", "comments.approve",
     "comments.reject", "comments.delete"}

\* C1: getById and getBySlug answer a non-admin caller with null for an
\* article that is not published, and answer with the article for an admin
\* or when the article is published.
C1_UnpublishedHiddenFromNonAdmin ==
    /\ (last.op = "articles.getById" /\ last.in \in DOMAIN db.articles) =>
           IF db.articles[last.in].status # "published" /\ last.who # "admin"
           THEN last.out = NULL
           ELSE last.out = last.in
    /\ (last.op = "articles.getBySlug"
        /\ getArticleBySlug(db, last.in.slug) # NULL) =>
           LET a == getArticleBySlug(db, last.in.slug)
           IN  IF db.articles[a].status # "published" /\ last.who # "admin"
               THEN last.out = NULL
               ELSE last.out = a

\* C2: whatever input a non-admin caller gives articles.list, the page
\* holds published articles only and total counts published articles only.
C2_ListOnlyPublished ==
    (last.op = "articles.list" /\ last.who # "admin") =>
        /\ \A i \in 1..Len(last.out.articles) :
               db.articles[last.out.articles[i]].status = "published"
        /\ last.out.total <=
               Cardinality({a \in DOMAIN db.articles :
                               db.articles[a].status = "published"})

\* C3: an admin-only operation called with role "user" is rejected with
\* NOT_ADMIN_ERR_MSG and changes no row; comments.create called anonymously
\* is rejected with UNAUTHED_ERR_MSG; the two signals differ.
C3_GateSignals ==
    /\ (last.who = "user" /\ last.op \in AdminOps) =>
           (last.err = NOT_ADMIN_ERR_MSG /\ Tables(db) = pre)
    /\ (last.who = "anon" /\ last.op = "comments.create") =>
           (last.err = UNAUTHED_ERR_MSG /\ Tables(db) = pre)
    /\ NOT_ADMIN_ERR_MSG # UNAUTHED_ERR_MSG

\* C4: when comments.delete(id) completes, exactly id and its transitive
\* descendants are gone; ancestors and all other comments are as before.
C4_DeleteRemovesSubtree ==
    (last.op = "comments.delete" /\ last.err = OK) =>
        LET gone == {last.in} \cup Descendants(pre.comments, last.in)
        IN  db.comments = Keep(pre.comments, DOMAIN pre.comments \ gone)

\* a chain root -> child -> grandchild, child deleted: root stays
C4_Witness ==
    /\ last.op = "comments.delete" /\ last.err = OK
    /\ \E root, grandchild \in DOMAIN pre.comments :
           /\ last.in \in DOMAIN pre.comments
           /\ pre.comments[last.in].parentId = root
           /\ pre.comments[grandchild].parentId = last.in
           /\ Cardinality({root, last.in, grandchild}) = 3
           /\ root \in DOMAIN db.comments
           /\ grandchild \notin DOMAIN db.comments

\* C5: after articles.delete(id) the article row is gone, no article_tags
\* row and no comment has articleId = id, and every other row is as before.
C5_ArticleDeleteCascades ==
    (last.op = "articles.delete" /\ last.err = OK) =>
        LET id == last.in IN
        /\ id \notin DOMAIN db.articles
        /\ \A t \in TagIds : db.articleTags[<<id, t>>] = 0
        /\ \A c \in DOMAIN db.comments : db.comments[c].articleId # id
        /\ db.articles = Keep(pre.articles, DOMAIN pre.articles \ {id})
        /\ \A p \in DOMAIN db.articleTags :
               p[1] # id => db.articleTags[p] = pre.articleTags[p]
        /\ db.comments = Keep(pre.comments,
               {c \in DOMAIN pre.comments : pre.comments[c].articleId # id})
        /\ db.tags = pre.tags /\ db.series = pre.series

\* the deleted article had a tag link, a comment and a reply to it, and
\* another article keeps a comment
C5_Witness ==
    /\ last.op = "articles.delete" /\ last.err = OK
    /\ last.in \in DOMAIN pre.articles
    /\ \E t \in TagIds : pre.articleTags[<<last.in, t>>] > 0
    /\ \E c, r \in DOMAIN pre.comments :
           /\ c # r
           /\ pre.comments[c].articleId = last.in
           /\ pre.comments[r].articleId = last.in
           /\ pre.comments[r].parentId = c
    /\ \E c \in DOMAIN db.comments : db.comments[c].articleId # last.in

\* C6: an article's seriesId is NULL or the id of an existing series row;
\* series.delete(S) leaves no series row S and NULL in every article that
\* had seriesId = S.
C6_NoDanglingSeries ==
    /\ \A a \in DOMAIN db.articles :
           db.articles[a].seriesId = NULL
           \/ db.articles[a].seriesId \in db.series
    /\ (last.op = "series.delete" /\ last.err = OK) =>
           /\ last.in \notin db.series
           /\ \A a \in DOMAIN pre.articles :
                  pre.articles[a].seriesId = last.in =>
                      /\ a \in DOMAIN db.articles
                      /\ db.articles[a].seriesId = NULL

C6_Witness ==
    /\ last.op = "series.delete" /\ last.err = OK
    /\ last.in \in pre.series
    /\ \E a \in DOMAIN pre.articles :
           /\ pre.articles[a].seriesId = last.in
           /\ db.articles[a].seriesId = NULL

\* C7: article_tags never holds two rows with the same (articleId, tagId);
\* a create or update whose tagIds repeats a tag id is rejected.
C7_LinksUnique ==
    /\ \A p \in DOMAIN db.articleTags : db.articleTags[p] <= 1
    /\ (/\ last.op \in {"articles.create", "articles.update"}
        /\ last.who = "admin"
        /\ HasRepeat(last.in.tagIds)) => last.err = DB_ERROR

\* an update of an existing article repeats an existing tag and is rejected
C7_Witness ==
    /\ last.op = "articles.update" /\ last.who = "admin"
    /\ last.in.hasTagIds /\ HasRepeat(last.in.tagIds)
    /\ last.in.id \in DOMAIN db.articles
    /\ \A i \in 1..Len(last.in.tagIds) : last.in.tagIds[i] \in db.tags
    /\ last.err = DB_ERROR

\* C8: articles.update sets publishedAt to the current time exactly when
\* the stored status was not published and the requested status is
\* published, and leaves it as it was otherwise; an article created as
\* draft has publishedAt NULL.
C8_PublishStamping ==
    /\ (/\ last.op = "articles.update" /\ last.err = OK
        /\ last.in.id \in DOMAIN pre.articles) =>
           LET before == pre.articles[last.in.id]
               after  == db.articles[last.in.id]
           IN  IF before.status # "published" /\ last.in.status = "published"
               THEN after.publishedAt = last.at
               ELSE after.publishedAt = before.publishedAt
    /\ (/\ last.op = "articles.create" /\ last.err = OK
        /\ last.in.status = "draft") =>
           db.articles[last.out].publishedAt = NULL

\* a published article is updated with status published at a later time
C8_Witness ==
    /\ last.op = "articles.update" /\ last.err = OK
    /\ last.in.id \in DOMAIN pre.articles
    /\ pre.articles[last.in.id].status = "published"
    /\ last.in.status = "published"
    /\ db.articles[last.in.id].publishedAt # NULL
    /\ db.articles[last.in.id].publishedAt < last.at

\* C9 (as stated): once publishedAt is non-null no articles.update changes
\* it; published -> archived -> published keeps the original timestamp.
C9_NeverOverwritten ==
    (/\ last.op = "articles.update" /\ last.err = OK
     /\ last.in.id \in DOMAIN pre.articles
     /\ pre.articles[last.in.id].publishedAt # NULL) =>
        db.articles[last.in.id].publishedAt =
            pre.articles[last.in.id].publishedAt

\* C9 (amended): a non-null publishedAt is never cleared and is changed by
\* articles.update only when the stored status is not published and the
\* requested status is published, and then it becomes the current time:
\* archived -> published restamps.
C9_RestampOnRepublish ==
    (/\ last.op = "articles.update" /\ last.err = OK
     /\ last.in.id \in DOMAIN pre.articles
     /\ pre.articles[last.in.id].publishedAt # NULL) =>
        LET before == pre.articles[last.in.id]
            after  == db.articles[last.in.id]
        IN  /\ after.publishedAt # NULL
            /\ after.publishedAt # before.publishedAt =>
                   /\ before.status # "published"
                   /\ last.in.status = "published"
            /\ (before.status = "archived" /\ last.in.status = "published")
                   => after.publishedAt = last.at

\* an archived article that was published before is published again later
C9_Witness ==
    /\ last.op = "articles.update" /\ last.err = OK
    /\ last.in.id \in DOMAIN pre.articles
    /\ pre.articles[last.in.id].status = "archived"
    /\ pre.articles[last.in.id].publishedAt # NULL
    /\ last.in.status = "published"
    /\ db.articles[last.in.id].publishedAt # pre.articles[last.in.id].publishedAt

\* C10: the count tags.listWithCount returns for a tag is the number of
\* published articles that carry the tag.
C10_CountsPublishedOnly ==
    last.op = "tags.listWithCount" =>
        \A t \in DOMAIN last.out :
            last.out[t] =
                Cardinality({a \in DOMAIN db.articles :
                                /\ db.articles[a].status = "published"
                                /\ db.articleTags[<<a, t>>] > 0})

\* text contains term as a run of consecutive characters
Contains(text, term) ==
    \E i \in 0..(Len(text) - Len(term)) :
        SubSeq(text, i + 1, i + Len(term)) = term

\* the published rows a listing input asks for
Asked(d, f) ==
    {a \in DOMAIN d.articles :
        /\ d.articles[a].status = "published"
        /\ f.seriesId # NULL => d.articles[a].seriesId = f.seriesId
        /\ f.year # NULL => YEAR(d.articles[a].publishedAt) = f.year
        /\ f.tagId # NULL => d.articleTags[<<a, f.tagId>>] > 0
        /\ f.search # <<>> =>
               \/ Contains(d.articles[a].title, f.search)
               \/ Contains(d.articles[a].content, f.search)
               \/ Contains(d.articles[a].excerpt, f.search)}

C12_SearchIsLiteral ==
    (last.op = "articles.list" /\ last.in.search # <<>>
     /\ last.in.status = "none") =>
        LET term == last.in.search
            pattern == escapeLikePattern(term)
            found == {last.out.articles[i] : i \in 1..Len(last.out.articles)}
        IN  /\ \A i \in 1..Len(pattern) :
                   pattern[i] \in {"%", "_"} =>
                       i > 1 /\ pattern[i - 1] = "\\"
            /\ Times(pattern, "\\") =
                   2 * Times(term, "\\") + Times(term, "%") + Times(term, "_")
            /\ \A a \in DOMAIN db.articles :
                   a \in found <=>
                       /\ db.articles[a].status = "published"
                       /\ \/ Contains(db.articles[a].title, term)
                          \/ Contains(db.articles[a].content, term)
                          \/ Contains(db.articles[a].excerpt, term)

\* the term holds a %, the stored article does not hold the term but
\* would match it as a wildcard, and the listing is empty
C12_Witness ==
    /\ last.op = "articles.list" /\ last.in.status = "none"
    /\ Times(last.in.search, "%") > 0
    /\ \E a \in DOMAIN db.articles :
           /\ ~Contains(db.articles[a].title, last.in.search)
           /\ like(db.articles[a].title,
                   <<"%">> \o last.in.search \o <<"%">>)
    /\ last.out.articles = <<>>
    /\ last.out.total = 0

\* C13: articles.getById and articles.getBySlug leave every stored row as
\* it was, viewCount included, for every input.
C13_ReadsChangeNothing ==
    last.op \in {"articles.getById", "articles.getBySlug"} =>
        Tables(db) = pre

\* C14: a request to count a view adds exactly 1 to the viewCount of the
\* article when it is published and changes no row when the article is
\* draft, archived or absent; no other column and no other row changes.
C14_IncrementPublishedOnly ==
    (last.op = "articles.getBySlug" /\ last.in.incrementView) =>
        LET a == getArticleBySlug(db, last.in.slug)
        IN  IF a # NULL /\ pre.articles[a].status = "published"
            THEN /\ db.articles[a].viewCount = pre.articles[a].viewCount + 1
                 /\ Tables(db) =
                        [pre EXCEPT !.articles[a].viewCount = @ + 1]
            ELSE Tables(db) = pre

\* the second of two requests on a published article: viewCount is 2
C14_Witness ==
    /\ last.op = "articles.getBySlug" /\ last.in.incrementView
    /\ \E a \in DOMAIN db.articles :
           /\ db.articles[a].slug = last.in.slug
           /\ db.articles[a].status = "published"
           /\ pre.articles[a].viewCount = 1
           /\ db.articles[a].viewCount = 2

\* C15: comments.listByArticle returns exactly the approved comments of the
\* article asked for, each once, in ascending order of creation time; an
\* approved reply is returned whatever the status of its parent.
C15_ListApprovedOnly ==
    (last.op = "comments.listByArticle" /\ last.err = OK) =>
        LET rows == last.out
            approved == {c \in DOMAIN db.comments :
                            /\ db.comments[c].articleId = last.in
                            /\ db.comments[c].status = "approved"}
        IN  /\ {rows[i] : i \in 1..Len(rows)} = approved
            /\ Len(rows) = Cardinality(approved)
            /\ \A i \in 1..Len(rows) - 1 :
                   db.comments[rows[i]].createdAt
                       <= db.comments[rows[i + 1]].createdAt
            /\ \A c \in approved :
                   db.comments[c].parentId \in DOMAIN db.comments =>
                       \E i \in 1..Len(rows) : rows[i] = c

\* two approved comments of different creation times are listed, one of
\* them a reply to a comment of the same article that is pending or
\* rejected and stays out of the list
C15_Witness ==
    /\ last.op = "comments.listByArticle" /\ last.err = OK
    /\ Len(last.out) = 2
    /\ db.comments[last.out[1]].createdAt < db.comments[last.out[2]].createdAt
    /\ \E i \in 1..2 :
           LET parent == db.comments[last.out[i]].parentId
           IN  /\ parent \in DOMAIN db.comments
               /\ db.comments[parent].status \in {"pending", "rejected"}
               /\ db.comments[parent].articleId = last.in
               /\ parent \notin {last.out[1], last.out[2]}

\* C16: a comment created by the admin is stored approved, a comment
\* created by any other signed-in user is stored pending.
C16_StatusByRole ==
    (last.op = "comments.create" /\ last.err = OK) =>
        /\ last.out \in DOMAIN db.comments
        /\ last.out \notin DOMAIN pre.comments
        /\ db.comments[last.out].authorId = CtxUser(last.who).id
        /\ db.comments[last.out].status =
               IF CtxUser(last.who).role = "admin" THEN "approved"
               ELSE "pending"

\* the admin has just created a comment, stored approved, next to a
\* comment of the user that is still pending
C16_Witness ==
    /\ last.op = "comments.create" /\ last.err = OK
    /\ last.who = "admin"
    /\ db.comments[last.out].status = "approved"
    /\ \E c \in DOMAIN db.comments :
           /\ db.comments[c].authorId = CtxUser("user").id
           /\ db.comments[c].status = "pending"

\* C17: without a database connection every read of db.ts returns an empty
\* result and does not throw: getArticles gives {articles: [], total: 0},
\* the list and aggregate reads give [], a single-row lookup gives nothing.
C17_ReadsDegrade ==
    (~conn /\ last.op \in Reads) =>
        /\ last.err = OK
        /\ last.out =
               IF last.op = "getArticles"
               THEN [articles |-> <<>>, total |-> 0]
               ELSE IF last.op \in {"getUserByOpenId", "getUserById",
                                    "getSeriesById", "getSeriesBySlug",
                                    "getTagById", "getTagBySlug",
                                    "getArticleById", "getArticleBySlug",
                                    "getCommentById"}
               THEN NULL
               ELSE <<>>

\* C18: without a database connection every write of db.ts throws; none
\* returns normally.
C18_WritesThrow ==
    (~conn /\ last.op \in Writes) => last.err # OK

\* C19: a mounted Article component issues the incrementView mutation at
\* most once, however often its effect runs again after a refetch or a
\* change of the slug or of the article.
C19_IncrementOncePerMount ==
    page.mounted =>
        /\ Len(page.sent) <= 1
        /\ Len(page.sent) = 1 <=> page.hasIncrementedRef

\* the page has issued the mutation for "a", was then routed to "b" and
\* holds the data of that article: the effect has run again and issued
\* nothing
C19_Witness ==
    /\ page.mounted
    /\ page.sent = <<[slug |-> "a"]>>
    /\ page.slug = "b"
    /\ page.article # NULL
    /\ db.articles[page.article].slug = "b"

\* C20: for every stored article, publishedAt is set exactly when the
\* article has the status published now or had it at some earlier time
\* (creation as published counts): a never-published article has none, and
\* a later change to draft or archived does not clear it.
C20_PublishedAtIffEverPublished ==
    \A a \in DOMAIN db.articles :
        /\ db.articles[a].publishedAt # NULL <=> a \in everPublished
        /\ db.articles[a].status = "published" => a \in everPublished

\* an update has just taken a published article back to draft or archived
\* and its publishedAt is still there, next to an article that was never
\* published and has none
C20_Witness ==
    /\ last.op = "articles.update" /\ last.err = OK
    /\ last.in.id \in DOMAIN db.articles
    /\ pre.articles[last.in.id].status = "published"
    /\ db.articles[last.in.id].status \in {"draft", "archived"}
    /\ db.articles[last.in.id].publishedAt # NULL
    /\ \E b \in DOMAIN db.articles :
           /\ b \notin everPublished
           /\ db.articles[b].publishedAt = NULL

\* C21: every comment whose parentId is set names a stored comment of the
\* same article, after any sequence of comments.create, comments.delete
\* and articles.delete.
C21_ParentExistsSameArticle ==
    \A c \in DOMAIN db.comments :
        db.comments[c].parentId # NULL =>
            /\ db.comments[c].parentId \in DOMAIN db.comments
            /\ db.comments[db.comments[c].parentId].articleId
                   = db.comments[c].articleId

\* C22: view-count increments that interleave are never lost: the
\* viewCount of an article is the number of increment requests on it that
\* have been applied, whatever the order of their statements; with n
\* requests done it is n higher than at the start.
C22_NoLostIncrement ==
    \A a \in DOMAIN db.articles :
        db.articles[a].viewCount =
            Cardinality({r \in Requests :
                            /\ calls[r].pc = "done"
                            /\ calls[r].article = a})

\* every request has counted a view of article 1, two of them after
\* reading the same viewCount, and the counter holds all of them
C22_Witness ==
    /\ \A r \in Requests : calls[r].pc = "done" /\ calls[r].article = 1
    /\ \E r1, r2 \in Requests : r1 # r2 /\ calls[r1].seen = calls[r2].seen
    /\ db.articles[1].viewCount = MaxRequests

\* C23: viewCount is monotonic: no API operation lowers the viewCount of an
\* article that exists before and after it, and a new article starts at 0.
C23_ViewCountMonotonic ==
    /\ \A a \in DOMAIN pre.articles \cap DOMAIN db.articles :
           db.articles[a].viewCount >= pre.articles[a].viewCount
    /\ \A a \in DOMAIN db.articles \ DOMAIN pre.articles :
           db.articles[a].viewCount = 0

\* articles.update has just changed an article that has been viewed, and
\* its viewCount is what it was
C23_Witness ==
    /\ last.op = "articles.update" /\ last.err = OK
    /\ last.in.id \in DOMAIN db.articles
    /\ Tables(db) # pre
    /\ pre.articles[last.in.id].viewCount >= 1
    /\ db.articles[last.in.id].viewCount = pre.articles[last.in.id].viewCount

C25_LinksReplaced ==
    LET given == {last.in.tagIds[i] : i \in 1..Len(last.in.tagIds)}
    IN  /\ (/\ last.op = "articles.update" /\ last.who = "admin"
            /\ last.in.hasTagIds) =>
               /\ LinksOf(db, last.in.id) = given
               /\ \A a \in ArticleIds \ {last.in.id} :
                      LinksOf(db, a) = {t \in TagIds :
                                          pre.articleTags[<<a, t>>] > 0}
        /\ (/\ last.op = "articles.update" /\ last.who = "admin"
            /\ ~last.in.hasTagIds) =>
               db.articleTags = pre.articleTags
        /\ (/\ last.op = "articles.create" /\ last.who = "admin"
            /\ last.in.tagIds # <<>>) =>
               \A a \in ArticleIds :
                   LinksOf(db, a) =
                       IF a \in DOMAIN db.articles \ DOMAIN pre.articles
                       THEN given
                       ELSE {t \in TagIds : pre.articleTags[<<a, t>>] > 0}

\* C26: a comment that is approved or rejected is never pending again:
\* comments.approve writes approved and comments.reject writes rejected on
\* the comment named, and the replies to it and every other row stay as
\* they were; no other operation writes a status.
C26_NeverBackToPending ==
    /\ \A c \in DOMAIN pre.comments \cap DOMAIN db.comments :
           pre.comments[c].status # "pending" =>
               db.comments[c].status # "pending"
    /\ (last.op \in {"comments.approve", "comments.reject"}
        /\ last.err = OK) =>
           LET written == IF last.op = "comments.approve" THEN "approved"
                          ELSE "rejected"
           IN  IF last.in \in DOMAIN pre.comments
               THEN Tables(db) =
                        [pre EXCEPT !.comments[last.in].status = written]
               ELSE Tables(db) = pre
    /\ last.op \notin {"comments.approve", "comments.reject"} =>
           \A c \in DOMAIN pre.comments \cap DOMAIN db.comments :
               db.comments[c].status = pre.comments[c].status

\* the admin has just approved a rejected comment whose reply is pending:
\* the comment is approved, the reply still pending
C26_Witness ==
    /\ last.op = "comments.approve" /\ last.err = OK
    /\ last.in \in DOMAIN pre.comments
    /\ pre.comments[last.in].status = "rejected"
    /\ db.comments[last.in].status = "approved"
    /\ \E c \in DOMAIN db.comments :
           /\ c # last.in
           /\ db.comments[c].parentId = last.in
           /\ db.comments[c].status = "pending"

C28_DeleteTerminates ==
    (last.op = "comments.delete" /\ last.who = "admin") =>
        last.err # NO_RESPONSE

\* C29: two articles.update calls that set tagIds on the same article side
\* by side are serializable: when both are done, both have succeeded and
\* the article's tags are the tagIds of one of the two calls.
C29_TagUpdatesSerializable ==
    (/\ calls[1].op = "articles.update" /\ calls[1].pc = "done"
     /\ calls[2].op = "articles.update" /\ calls[2].pc = "done"
     /\ calls[1].in.id = calls[2].in.id) =>
        LET given(r) == {calls[r].in.tagIds[i] :
                            i \in 1..Len(calls[r].in.tagIds)}
        IN  /\ calls[1].err = OK
            /\ calls[2].err = OK
            /\ LinksOf(db, calls[1].in.id) \in {given(1), given(2)}

\* C30: buildCommentTree places every comment of its list exactly once,
\* under its parent when parentId is set and the parent is in the list
\* and as a root otherwise; hence every comment of the list is reachable
\* from some root, for every list, also when parentId links leave the
\* list or form a cycle.
C30_EveryCommentInForest ==
    last.op = "CommentSection" =>
        LET list == last.out.list
            tree == last.out.tree
            all == {list[i] : i \in 1..Len(list)}
            roots == {tree.rootComments[i] :
                         i \in 1..Len(tree.rootComments)}
            places(c) == Times(tree.rootComments, c)
                         + Cardinality({p \in all :
                               Times(tree.replies[p], c) = 1})
        IN  /\ \A c \in all :
                   /\ places(c) = 1
                   /\ \A p \in all : Times(tree.replies[p], c) <= 1
                   /\ IF /\ db.comments[c].parentId # NULL
                         /\ db.comments[c].parentId \in all
                      THEN Times(tree.replies[db.comments[c].parentId], c) = 1
                      ELSE c \in roots
            /\ Rendered(tree, roots) = all

====
